---- MODULE Spec2Model ----
(***************************************************************************)
(* Model of svelte-persistent-store: the schema-history migration resolver *)
(* (utils.ts: semverCompare, getLatestSemver, migrate) and the persistent  *)
(* store factory (persistent.ts: save, update, load).                      *)
(*                                                                         *)
(* Storage (localforage) is modelled as a map from key to value.  A        *)
(* storage operation is issued by the store, stays in flight for any       *)
(* number of steps (for ever, when it hangs), and then resolves (its       *)
(* effect on the map and the continuation attached to its promise run in   *)
(* one step); a write may also reject.  Operations in flight may settle in *)
(* any order.                                                              *)
(*                                                                         *)
(* A zod schema is modelled as a function from values to parsed values or  *)
(* REJECT: safeParse succeeds with data = schema[v] unless schema[v] is    *)
(* REJECT.  Parsing may normalise (fill in defaults), so data may differ   *)
(* from the input.                                                         *)
(***************************************************************************)
EXTENDS Integers, Sequences, FiniteSets, TLC

VARIABLES
    hist,        \* schemaHistory argument of persistent()
    def,         \* defaultValue argument (explicit, or derived from the latest schema)
    cur,         \* currentVersion argument (explicit, or the latest version)
    storage,     \* localforage: key -> stored value (NULL = no entry)
    value,       \* __.value
    initialized, \* __.initialized
    setPromise,  \* __.setPromise: 0 = Promise.resolve(), i = promise of the write of ops[i]
    container,   \* value held by the svelte writable
    notified,    \* values delivered to subscribers by writable.set, in order
    seen,        \* what the value accessor returned inside each of these notifications
    ops,         \* calls made on the store (load at construction first), with their progress
    mHist,       \* resolver check: schema history handed to migrate
    mRaw,        \* resolver check: raw value handed to migrate
    mOut,        \* resolver check: what migrate returned
    vIn,         \* ordering check: array of version strings handed to the utilities
    vOut         \* ordering check: what the utilities returned

vars == <<hist, def, cur, storage, value, initialized, setPromise, container,
          notified, seen, ops, mHist, mRaw, mOut, vIn, vOut>>

storeVars == <<hist, def, cur, storage, value, initialized, setPromise,
               container, notified, seen, ops>>

migrateVars == <<mHist, mRaw, mOut>>

semverVars == <<vIn, vOut>>

----------------------------------------------------------------------------
(* Bounds *)

\* calls recorded per store, the construction-time load included
MaxOps == 3

\* length of the arrays of version strings handed to the ordering utilities
MaxVersions == 3

----------------------------------------------------------------------------
(* Values *)

NULL == "null"       \* what getItem yields when there is no entry
ZERO == "zero"       \* a stored value that is present but falsy (0, "", false)
REJECT == "REJECT"   \* safeParse(...).success = false

\* "s": a value of the old shape; "n0", "n1": values of the new shape;
\* "e": the empty object {}, which a schema with defaults parses to "n0"
Values == {NULL, ZERO, "s", "n0", "n1", "e"}

Falsy(v) == v \in {NULL, ZERO}

----------------------------------------------------------------------------
(* Versions: a valid semver string major.minor.patch is a triple of        *)
(* naturals, and major.minor.patch+build is the triple followed by the     *)
(* build metadata; any other sequence stands for a malformed string.       *)

V1 == <<0, 0, 1>>
V2 == <<0, 0, 2>>

semverValid(a) == Len(a) \in {3, 4}

\* the patch number is left out of the comparison
semverGtNoPatch(a, b) ==
    \/ a[1] > b[1]
    \/ a[1] = b[1] /\ a[2] > b[2]

\* precedence is decided by major, minor, patch; build metadata is not compared
semverGt(a, b) ==
    \/ a[1] > b[1]
    \/ a[1] = b[1] /\ a[2] > b[2]
    \/ a[1] = b[1] /\ a[2] = b[2] /\ a[3] > b[3]

semverLt(a, b) == semverGt(b, a)

THROWS == 2

\* only the left operand is validated
semverCompareLeft(a, b) ==
    IF ~semverValid(a) THEN THROWS
    ELSE IF ~semverValid(b) THEN -1
    ELSE IF semverGt(a, b) THEN 1
    ELSE IF semverLt(a, b) THEN -1
    ELSE 0

semverCompare(a, b) ==
    IF ~semverValid(a) THEN THROWS
    ELSE IF ~semverValid(b) THEN THROWS
    ELSE IF semverGt(a, b) THEN 1
    ELSE IF semverLt(a, b) THEN -1
    ELSE 0

\* Ord.fromCompare(semverCompare): the comparison A.sort is given
semverOrd(a, b) == semverCompare(a, b)

RECURSIVE StrLt(_, _)
\* order of the version strings as strings (Object.keys(r).sort() in R.keys)
StrLt(a, b) ==
    IF b = <<>> THEN FALSE
    ELSE IF a = <<>> THEN TRUE
    ELSE IF Head(a) # Head(b) THEN Head(a) < Head(b)
    ELSE StrLt(Tail(a), Tail(b))

RECURSIVE RKeys(_)
\* R.keys: the keys of a record, as an array
RKeys(S) ==
    IF S = {} THEN <<>>
    ELSE LET k == CHOOSE x \in S : \A y \in S \ {x} : StrLt(x, y)
         IN <<k>> \o RKeys(S \ {k})

RECURSIVE Insert(_, _)
Insert(x, s) ==
    IF s = <<>> THEN <<x>>
    ELSE IF semverOrd(x, Head(s)) < 0 THEN <<x>> \o s
    ELSE <<Head(s)>> \o Insert(x, Tail(s))

RECURSIVE ASort(_)
\* A.sort(semverOrd): stable ascending sort of an array of versions
ASort(s) ==
    IF s = <<>> THEN <<>>
    ELSE Insert(s[Len(s)], ASort(SubSeq(s, 1, Len(s) - 1)))

AReverse(s) == [i \in 1..Len(s) |-> s[Len(s) + 1 - i]]

\* A.head in place of A.last
getLatestSemverHead(versions) ==
    LET sorted == ASort(versions)
    IN IF sorted = <<>> THEN <<0, 0, 0>> ELSE sorted[1]

getLatestSemver(versions) ==
    LET sorted == ASort(versions)
    IN IF sorted = <<>> THEN <<0, 0, 0>> ELSE sorted[Len(sorted)]

getLatestSchemaVersion(h) == getLatestSemver(RKeys(DOMAIN h))

----------------------------------------------------------------------------
(* Schemas and upgrade functions *)

Schema(accepted, norm) ==
    [v \in Values |-> IF v \in accepted
                      THEN (IF v \in DOMAIN norm THEN norm[v] ELSE v)
                      ELSE REJECT]

NoNorm == [v \in {} |-> v]
FillDefaults == [v \in {"e"} |-> "n0"]

\* z.object({foo: z.number().default(0)})
SNew == Schema({"n0", "n1", "e"}, FillDefaults)
\* z.object({foo: z.string()})
SOld == Schema({"s"}, NoNorm)
\* a schema that also accepts null, e.g. z.object({...}).nullable()
SNullable == Schema({NULL, "n0", "n1", "e"}, FillDefaults)
\* a schema of a primitive, which accepts a falsy value, e.g. z.number()
SPrim == Schema({ZERO}, NoNorm)

Const(c) == [v \in Values |-> c]
Ident == [v \in Values |-> v]

Entry(schema) == [schema |-> schema, hasMigration |-> FALSE, migration |-> Ident]
EntryM(schema, migration) ==
    [schema |-> schema, hasMigration |-> TRUE, migration |-> migration]

\* parseSchema(schema)(value): Right(data) or Left(error)
parseSchema(schema, v) ==
    IF schema[v] # REJECT THEN [right |-> TRUE, val |-> schema[v]]
    ELSE [right |-> FALSE, val |-> REJECT]

matchesSchema(schema, v) == parseSchema(schema, v).right

\* A.findFirst over an array of versions
RECURSIVE findFirst(_, _, _)
findFirst(s, h, v) ==
    IF s = <<>> THEN <<>>
    ELSE IF matchesSchema(h[Head(s)].schema, v) THEN Head(s)
    ELSE findFirst(Tail(s), h, v)

NoMatchingSchema == "No matching schema"
NoMigration == "No migration available"
ZodError == "ZodError"

\* migrate that scans the versions in ascending order
migrateAscending(h, v) ==
    LET version == findFirst(ASort(RKeys(DOMAIN h)), h, v)
    IN IF version = <<>>
       THEN [right |-> FALSE, val |-> REJECT, err |-> NoMatchingSchema, src |-> <<>>,
             called |-> {}]
       ELSE IF h[version].hasMigration
       THEN LET r == parseSchema(h[getLatestSchemaVersion(h)].schema,
                                 h[version].migration[v])
            IN [right |-> r.right, val |-> r.val,
                err |-> IF r.right THEN "" ELSE ZodError, src |-> <<>>,
                called |-> {version}]
       ELSE [right |-> FALSE, val |-> REJECT, err |-> NoMigration, src |-> version,
             called |-> {}]

\* migrate that returns the upgraded candidate without validating it
migrateUnvalidated(h, v) ==
    LET version == findFirst(AReverse(ASort(RKeys(DOMAIN h))), h, v)
    IN IF version = <<>>
       THEN [right |-> FALSE, val |-> REJECT, err |-> NoMatchingSchema, src |-> <<>>,
             called |-> {}]
       ELSE IF h[version].hasMigration
       THEN [right |-> TRUE, val |-> h[version].migration[v], err |-> "",
             src |-> <<>>, called |-> {version}]
       ELSE [right |-> FALSE, val |-> REJECT, err |-> NoMigration, src |-> version,
             called |-> {}]

\* migrate that upgrades from the oldest version when no schema matches
migrateFallback(h, v) ==
    LET sorted == ASort(RKeys(DOMAIN h))
        found == findFirst(AReverse(sorted), h, v)
        version == IF found = <<>> THEN sorted[1] ELSE found
    IN IF h[version].hasMigration
       THEN LET r == parseSchema(h[getLatestSchemaVersion(h)].schema,
                                 h[version].migration[v])
            IN [right |-> r.right, val |-> r.val,
                err |-> IF r.right THEN "" ELSE ZodError, src |-> <<>>,
                called |-> {version}]
       ELSE [right |-> FALSE, val |-> REJECT, err |-> NoMigration, src |-> version,
             called |-> {}]

\* the result carries, besides the Either, the versions whose migration
\* function was called (line 146)
migrate(h, v) ==
    LET version == findFirst(AReverse(ASort(RKeys(DOMAIN h))), h, v)
    IN IF version = <<>>
       THEN [right |-> FALSE, val |-> REJECT, err |-> NoMatchingSchema, src |-> <<>>,
             called |-> {}]
       ELSE IF h[version].hasMigration
       THEN LET r == parseSchema(h[getLatestSchemaVersion(h)].schema,
                                 h[version].migration[v])
            IN [right |-> r.right, val |-> r.val,
                err |-> IF r.right THEN "" ELSE ZodError, src |-> <<>>,
                called |-> {version}]
       ELSE [right |-> FALSE, val |-> REJECT, err |-> NoMigration, src |-> version,
             called |-> {}]

\* schemaHistory[latest].schema.parse({}): REJECT stands for the exception
getLatestSchemaDefaultValue(h) == h[getLatestSchemaVersion(h)].schema["e"]

----------------------------------------------------------------------------
(* The store: persistent(key, schemaHistory, defaultValue, currentVersion) *)

UserKey == "k"
Prefix == "silent-persistent"

\* a key built from the latest version of the history instead of currentVersion
processedKeyLatest == <<Prefix, getLatestSchemaVersion(hist), UserKey>>

\* `silent-persistent-${currentVersion}-${key}`
processedKey == <<Prefix, cur, UserKey>>

\* get __key(), lines 195-197
keyAccessor == processedKey

Keys == {<<Prefix, v, UserKey>> : v \in {V1, V2}}

currentSchema == hist[cur].schema

\* the upgrade yields a value of the new shape
HUpgrades == (V1 :> EntryM(SOld, Const("n1"))) @@ (V2 :> Entry(SNew))
\* the upgrade yields a value the latest schema rejects
HBadUpgrade == (V1 :> EntryM(SOld, Const("s"))) @@ (V2 :> Entry(SNew))
\* the old schema has no upgrade
HNoUpgrade == (V1 :> Entry(SOld)) @@ (V2 :> Entry(SNew))
\* a single schema, which accepts null
HNullable == (V2 :> Entry(SNullable))
\* the old schema accepts a falsy value
HFalsyOld == (V1 :> EntryM(SPrim, Const("n1"))) @@ (V2 :> Entry(SNew))
\* both entries have an upgrade
HBothUpgrade ==
    (V1 :> EntryM(SOld, Const("n1"))) @@ (V2 :> EntryM(SNew, Const("n1")))

\* (schemaHistory, currentVersion) the store is constructed with: the
\* latest version, or, in the last one, an older key of the history
Constructions == {
    <<HUpgrades, V2>>, <<HBadUpgrade, V2>>, <<HNoUpgrade, V2>>,
    <<HNullable, V2>>, <<HFalsyOld, V2>>, <<HBothUpgrade, V1>> }

\* defaultValue: derived from the latest schema when it has one, or explicit
Defaults(h) ==
    ({getLatestSchemaDefaultValue(h)} \ {REJECT}) \cup {"s"}

\* what the storage may hold under the store's key before construction
Stored == {NULL, ZERO, "s", "n0", "e"}

\* arguments of set
SetArgs == {"n1", "s", "e"}

\* arguments of update
Updaters == {"bump"}

\* "bump": a value of the new shape is counted up once, and then replaced
\* by a value of the old shape; any other value is returned as it is
Updater(f) ==
    [v \in Values |-> IF v = "n0" THEN "n1" ELSE IF v = "n1" THEN "s" ELSE v]

Op(kind, arg, val, phase) == [kind |-> kind, arg |-> arg, val |-> val, phase |-> phase]

\* the state persistent() returns in: the load() of line 185 has run up to
\* its first await, so its getItem is in flight
Init ==
    /\ \E c \in Constructions : hist = c[1] /\ cur = c[2]
    /\ def \in Defaults(hist)
    /\ \E r \in Stored :
         storage = [k \in Keys |-> IF k = processedKey THEN r ELSE "n1"]
    /\ value = def
    /\ initialized = FALSE
    /\ setPromise = 0
    /\ container = def
    /\ notified = <<>>
    /\ seen = <<>>
    /\ ops = <<Op("load", NULL, NULL, "reading")>>
    /\ mHist = <<>>
    /\ mRaw = NULL
    /\ mOut = <<>>
    /\ vIn = <<>>
    /\ vOut = <<>>

\* save without the schema check: every value is written
saveUnchecked(i, o, v) ==
    /\ setPromise' = i
    /\ ops' = [(IF i > Len(ops) THEN Append(ops, o) ELSE ops)
                  EXCEPT ![i] = [o EXCEPT !.phase = "writing", !.val = v]]

\* save(value), lines 108-121, as the update of (ops, setPromise) for the
\* call recorded at index i with the record o when its write is issued
save(i, o, v) ==
    IF ~parseSchema(currentSchema, v).right
    THEN /\ setPromise' = 0
         /\ ops' = [(IF i > Len(ops) THEN Append(ops, o) ELSE ops)
                       EXCEPT ![i] = [o EXCEPT !.phase = "invalid"]]
    ELSE /\ setPromise' = i
         /\ ops' = [(IF i > Len(ops) THEN Append(ops, o) ELSE ops)
                       EXCEPT ![i] = [o EXCEPT !.phase = "writing", !.val = v]]

\* set that adopts the value before its write has resolved
SetEager(v) ==
    /\ Len(ops) < MaxOps
    /\ save(Len(ops) + 1, Op("set", v, v, "call"), v)
    /\ IF parseSchema(currentSchema, v).right
       THEN /\ value' = v
            /\ container' = v
            /\ notified' = Append(notified, v)
            /\ seen' = Append(seen, value)
       ELSE UNCHANGED <<value, container, notified, seen>>
    /\ UNCHANGED <<hist, def, cur, storage, initialized>>
    /\ UNCHANGED <<migrateVars, semverVars>>

\* store.set(v)
Set(v) ==
    /\ Len(ops) < MaxOps
    /\ save(Len(ops) + 1, Op("set", v, v, "call"), v)
    /\ UNCHANGED <<hist, def, cur, storage, value, initialized, container, notified, seen>>
    /\ UNCHANGED <<migrateVars, semverVars>>

\* the value of the write issued last and still in flight, else __.value
LatestPendingValue ==
    LET P == {i \in 1..Len(ops) : ops[i].phase = "writing"}
    IN IF P = {} THEN value
       ELSE ops[CHOOSE i \in P : \A j \in P : j <= i].val

\* update that applies the updater to the value of a pending write
UpdateOnPending(f) ==
    /\ Len(ops) < MaxOps
    /\ LET v == Updater(f)[LatestPendingValue] IN
         IF currentSchema[v] = REJECT
         THEN /\ ops' = Append(ops, Op("update", f, v, "invalid"))
              /\ UNCHANGED setPromise
         ELSE save(Len(ops) + 1, Op("update", f, v, "call"), v)
    /\ UNCHANGED <<hist, def, cur, storage, value, initialized, container, notified, seen>>
    /\ UNCHANGED <<migrateVars, semverVars>>

\* store.update(updater), lines 123-134
Update(f) ==
    /\ Len(ops) < MaxOps
    /\ LET v == Updater(f)[value] IN
         IF currentSchema[v] = REJECT
         THEN /\ ops' = Append(ops, Op("update", f, v, "invalid"))
              /\ UNCHANGED setPromise
         ELSE save(Len(ops) + 1, Op("update", f, v, "call"), v)
    /\ UNCHANGED <<hist, def, cur, storage, value, initialized, container, notified, seen>>
    /\ UNCHANGED <<migrateVars, semverVars>>

\* load that reads the storage again although the store is initialized
LoadAlways ==
    /\ Len(ops) < MaxOps
    /\ ops' = Append(ops, Op("load", NULL, NULL, "reading"))
    /\ UNCHANGED <<hist, def, cur, storage, value, initialized, setPromise,
                   container, notified, seen>>
    /\ UNCHANGED <<migrateVars, semverVars>>

\* store.load(), lines 142-151: up to the await of getItem
Load ==
    /\ Len(ops) < MaxOps
    /\ IF initialized
       THEN ops' = Append(ops, Op("load", NULL, value, "returned"))
       ELSE ops' = Append(ops, Op("load", NULL, NULL, "reading"))
    /\ UNCHANGED <<hist, def, cur, storage, value, initialized, setPromise,
                   container, notified, seen>>
    /\ UNCHANGED <<migrateVars, semverVars>>

\* setDefault that writes the default without validating it
setDefaultUnchecked(i) ==
    /\ saveUnchecked(i, ops[i], def)
    /\ UNCHANGED initialized

\* setDefault, lines 143-148, called from the load recorded at index i; when
\* save rejects the default, the awaited promise is already resolved and
\* the rest of setDefault runs without any storage operation in between
setDefault(i) ==
    IF ~parseSchema(currentSchema, def).right
    THEN /\ setPromise' = 0
         /\ initialized' = TRUE
         /\ ops' = [ops EXCEPT ![i] = [@ EXCEPT !.phase = "done", !.val = def]]
    ELSE /\ save(i, ops[i], def)
         /\ UNCHANGED initialized

\* load, lines 151-183: getItem of the load at index i resolves
ReadResolve(i) ==
    /\ i \in 1..Len(ops)
    /\ ops[i].kind = "load" /\ ops[i].phase = "reading"
    /\ LET raw == storage[processedKey]
           result == parseSchema(currentSchema, raw)
           migrated == migrate(hist, raw)
       IN IF result.right
          THEN /\ container' = result.val
               /\ notified' = Append(notified, result.val)
               /\ seen' = Append(seen, value)
               /\ initialized' = TRUE
               /\ value' = result.val
               /\ ops' = [ops EXCEPT ![i] = [@ EXCEPT !.phase = "done", !.val = result.val]]
               /\ UNCHANGED setPromise
          ELSE IF Falsy(raw)
          THEN /\ setDefault(i)
               /\ UNCHANGED <<container, notified, seen, value>>
          ELSE IF ~migrated.right
          THEN /\ setDefault(i)
               /\ UNCHANGED <<container, notified, seen, value>>
          ELSE IF ~parseSchema(currentSchema, migrated.val).right
          THEN /\ setPromise' = 0
               /\ initialized' = TRUE
               /\ ops' = [ops EXCEPT ![i] = [@ EXCEPT !.phase = "done", !.val = migrated.val]]
               /\ UNCHANGED <<container, notified, seen, value>>
          ELSE /\ save(i, ops[i], migrated.val)
               /\ UNCHANGED <<container, notified, seen, value, initialized>>
    /\ UNCHANGED <<hist, def, cur, storage>>
    /\ UNCHANGED <<migrateVars, semverVars>>

\* a store that serialises its writes by call order: the value of a write
\* is not adopted when a call made later has already been adopted
WriteResolveLastCaller(i) ==
    /\ i \in 1..Len(ops)
    /\ ops[i].phase = "writing"
    /\ storage' = [storage EXCEPT ![processedKey] = ops[i].val]
    /\ IF \E j \in (i + 1)..Len(ops) : ops[j].phase = "done" /\ ops[j].kind # "load"
       THEN UNCHANGED <<container, notified, seen, value>>
       ELSE /\ container' = ops[i].val
            /\ notified' = Append(notified, ops[i].val)
            /\ seen' = Append(seen, value)
            /\ value' = ops[i].val
    /\ initialized' = (initialized \/ ops[i].kind = "load")
    /\ ops' = [ops EXCEPT ![i] = [@ EXCEPT !.phase = "done"]]
    /\ UNCHANGED <<hist, def, cur, setPromise>>
    /\ UNCHANGED <<migrateVars, semverVars>>

\* setItem of the call at index i resolves: lines 117-120, then, for a
\* load, the continuation of lines 145-147 or 179-182
WriteResolve(i) ==
    /\ i \in 1..Len(ops)
    /\ ops[i].phase = "writing"
    /\ storage' = [storage EXCEPT ![processedKey] = ops[i].val]
    /\ container' = ops[i].val
    /\ notified' = Append(notified, ops[i].val)
    /\ seen' = Append(seen, value)
    /\ value' = ops[i].val
    /\ initialized' = (initialized \/ ops[i].kind = "load")
    /\ ops' = [ops EXCEPT ![i] = [@ EXCEPT !.phase = "done"]]
    /\ UNCHANGED <<hist, def, cur, setPromise>>
    /\ UNCHANGED <<migrateVars, semverVars>>

\* setItem of the call at index i rejects: the then-callback never runs
WriteReject(i) ==
    /\ i \in 1..Len(ops)
    /\ ops[i].phase = "writing"
    /\ ops' = [ops EXCEPT ![i] = [@ EXCEPT !.phase = "failed"]]
    /\ UNCHANGED <<hist, def, cur, storage, value, initialized, setPromise,
                   container, notified, seen>>
    /\ UNCHANGED <<migrateVars, semverVars>>

Next ==
    \/ \E v \in SetArgs : Set(v)
    \/ \E f \in Updaters : Update(f)
    \/ Load
    \/ \E i \in 1..MaxOps : ReadResolve(i)
    \/ \E i \in 1..MaxOps : WriteResolve(i)
    \/ \E i \in 1..MaxOps : WriteReject(i)

Spec == Init /\ [][Next]_vars

\* the store's steps when the storage fulfils every operation it is given
NextLive ==
    \/ \E v \in SetArgs : Set(v)
    \/ \E f \in Updaters : Update(f)
    \/ Load
    \/ \E i \in 1..MaxOps : ReadResolve(i)
    \/ \E i \in 1..MaxOps : WriteResolve(i)

SpecLive == Init /\ [][NextLive]_vars

TypeOK ==
    /\ value \in Values
    /\ container \in Values
    /\ initialized \in BOOLEAN
    /\ setPromise \in 0..Len(ops)
    /\ Len(ops) <= MaxOps

\* what load() resolves with when getItem yields raw (lines 151-182)
loadResult(raw) ==
    IF parseSchema(currentSchema, raw).right THEN parseSchema(currentSchema, raw).val
    ELSE IF Falsy(raw) THEN def
    ELSE IF ~migrate(hist, raw).right THEN def
    ELSE migrate(hist, raw).val

----------------------------------------------------------------------------
(* The resolver on its own: migrate applied to a history and a raw value   *)

V3 == <<0, 1, 0>>

MigSchemas == {SNew, SOld, SNullable, SPrim}
MigMigrations == {Const("n1"), Const("s"), Ident}
MigEntries ==
    {Entry(sc) : sc \in MigSchemas}
        \cup {EntryM(sc, m) : sc \in MigSchemas, m \in MigMigrations}

MigHistories ==
    UNION {[S -> MigEntries] : S \in (SUBSET {V1, V2, V3}) \ {{}}}

InitMigrate ==
    /\ mHist \in MigHistories
    /\ mRaw \in Values
    /\ mOut = <<>>
    /\ hist = <<>> /\ def = NULL /\ cur = <<>> /\ storage = <<>>
    /\ value = NULL /\ initialized = FALSE /\ setPromise = 0
    /\ container = NULL /\ notified = <<>> /\ seen = <<>> /\ ops = <<>>
    /\ vIn = <<>> /\ vOut = <<>>

RunMigrate ==
    /\ mOut = <<>>
    /\ mOut' = migrate(mHist, mRaw)
    /\ UNCHANGED <<mHist, mRaw>>
    /\ UNCHANGED <<storeVars, semverVars>>

NextMigrate == RunMigrate

SpecMigrate == InitMigrate /\ [][NextMigrate]_vars

----------------------------------------------------------------------------
(* The ordering utilities on their own: semverCompare, A.sort(semverOrd)   *)
(* and getLatestSemver applied to an array of version strings              *)

V4 == <<1, 0, 0>>
\* "0.0.1+1": V1 with build metadata
V1Build == <<0, 0, 1, 1>>
\* "0.0" and "1": not semver strings
BadShort == <<0, 0>>
BadMajor == <<1>>

VersionStrings == {V1, V2, V3, V4, V1Build, BadShort, BadMajor}

Arrays == UNION {[1..n -> VersionStrings] : n \in 0..MaxVersions}

\* A.sort(semverOrd) runs to completion on arrays of valid versions only
Sortable(s) == \A i \in DOMAIN s : semverValid(s[i])

NoResult == [done |-> {}, cmp |-> <<>>, sorted |-> <<>>, latest |-> <<>>]

InitSemver ==
    /\ vIn \in Arrays
    /\ vOut = NoResult
    /\ mHist = <<>> /\ mRaw = NULL /\ mOut = <<>>
    /\ hist = <<>> /\ def = NULL /\ cur = <<>> /\ storage = <<>>
    /\ value = NULL /\ initialized = FALSE /\ setPromise = 0
    /\ container = NULL /\ notified = <<>> /\ seen = <<>> /\ ops = <<>>

\* semverCompare on every pair of elements of the array
RunCompare ==
    /\ "compare" \notin vOut.done
    /\ vOut' = [vOut EXCEPT
                  !.done = @ \cup {"compare"},
                  !.cmp = [i \in DOMAIN vIn |->
                             [j \in DOMAIN vIn |-> semverCompare(vIn[i], vIn[j])]]]
    /\ UNCHANGED <<vIn, storeVars, migrateVars>>

RunSort ==
    /\ "sort" \notin vOut.done
    /\ Sortable(vIn)
    /\ vOut' = [vOut EXCEPT !.done = @ \cup {"sort"}, !.sorted = ASort(vIn)]
    /\ UNCHANGED <<vIn, storeVars, migrateVars>>

RunLatest ==
    /\ "latest" \notin vOut.done
    /\ Sortable(vIn)
    /\ vOut' = [vOut EXCEPT !.done = @ \cup {"latest"},
                            !.latest = getLatestSemver(vIn)]
    /\ UNCHANGED <<vIn, storeVars, migrateVars>>

NextSemver ==
    \/ RunCompare
    \/ RunSort
    \/ RunLatest

SpecSemver == InitSemver /\ [][NextSemver]_vars

----------------------------------------------------------------------------
(* Properties *)

Last(q) == q[Len(q)]

\* this step records a new call of the given kind
Called(kind) ==
    /\ Len(ops') = Len(ops) + 1
    /\ Last(ops').kind = kind

\* this step leaves the calls recorded so far as they are
OldOpsSame == \A i \in 1..Len(ops) : ops'[i] = ops[i]

\* in this step the getItem of the load at index i resolves
ReadResolved(i) ==
    /\ ops[i].kind = "load" /\ ops[i].phase = "reading"
    /\ ops'[i].phase # "reading"

\* in this step the setItem of the call at index i resolves
WriteResolved(i) == ops[i].phase = "writing" /\ ops'[i].phase = "done"

\* this step writes v under the store's key, adopts it and notifies of it
Adopts(v) ==
    /\ storage' = [storage EXCEPT ![processedKey] = v]
    /\ value' = v
    /\ container' = v
    /\ notified' = Append(notified, v)

Settled == \A i \in 1..Len(ops) : ops[i].phase \in {"done", "returned", "invalid"}

\* C1: a set(v) with v accepted issues one write of v and changes neither
\* the in-memory value nor the container nor the notifications; v is
\* adopted and notified in the step in which that write resolves; and any
\* step that changes the value, the container or the notifications is the
\* resolution of a storage operation whose value is the one adopted.
C1_WriteThenAdopt ==
    [][ /\ (Called("set") /\ currentSchema[Last(ops').arg] # REJECT)
            => /\ Last(ops').phase = "writing"
               /\ Last(ops').val = Last(ops').arg
               /\ OldOpsSame
               /\ UNCHANGED <<value, container, notified, storage>>
        /\ \A i \in 1..Len(ops) :
             (ops[i].kind = "set" /\ WriteResolved(i)) => Adopts(ops[i].arg)
        /\ (value' # value \/ container' # container \/ notified' # notified)
            => \E i \in 1..Len(ops) :
                 /\ ops[i].phase \in {"reading", "writing"}
                 /\ ops'[i].phase = "done"
                 /\ value' = ops'[i].val
                 /\ container' = ops'[i].val
                 /\ notified' = Append(notified, ops'[i].val)
                 /\ ops[i].phase = "writing" => storage'[processedKey] = ops'[i].val
      ]_vars

C1_Witness ==
    \E i \in 1..Len(ops) :
        /\ ops[i].kind = "set" /\ ops[i].phase = "done"
        /\ value = ops[i].arg /\ container = ops[i].arg
        /\ storage[processedKey] = ops[i].arg
        /\ notified # <<>> /\ Last(notified) = ops[i].arg
        /\ value # def

RejectedSet == Called("set") /\ currentSchema[Last(ops').arg] = REJECT

\* C2 as stated: a set(v) with v rejected changes no field of the store
\* state (value, initialized, pendingWrite), no storage entry, issues no
\* write and notifies nobody.
C2_Original ==
    [][ RejectedSet
          => /\ UNCHANGED <<value, initialized, setPromise, storage, container, notified>>
             /\ Last(ops').phase = "invalid"
             /\ OldOpsSame
      ]_vars

\* C2 amended: a set(v) with v rejected changes neither value nor
\* initialized nor any storage entry, issues no write and notifies nobody;
\* pendingWrite is replaced by an already resolved promise.
C2_Amended ==
    [][ RejectedSet
          => /\ UNCHANGED <<value, initialized, storage, container, notified>>
             /\ setPromise' = 0
             /\ Last(ops').phase = "invalid"
             /\ OldOpsSame
      ]_vars

C2_Witness ==
    \E i, j \in 1..Len(ops) :
        /\ j < i
        /\ ops[i].kind = "set" /\ ops[i].phase = "invalid"
        /\ ops[j].phase = "writing"
        /\ setPromise = 0

SetCalls == {i \in 1..Len(ops) : ops[i].kind \in {"set", "update"}}

\* C3 as stated, for a default the active schema accepts and a v it parses
\* to v itself: after a single set(v) with v accepted, made at any moment
\* after construction, and once every storage operation of the store has
\* resolved, load() on a fresh store with the same arguments yields v.
C3_RoundTrip ==
    \A i \in 1..Len(ops) :
        (/\ SetCalls = {i}
         /\ ops[i].kind = "set" /\ ops[i].phase = "done"
         /\ currentSchema[ops[i].arg] = ops[i].arg
         /\ currentSchema[def] # REJECT
         /\ Settled)
            => loadResult(storage[processedKey]) = ops[i].arg

\* C4 as stated: the value accessor and the container always hold a value
\* that the active schema accepts.
C4_ValueValid ==
    /\ currentSchema[value] # REJECT
    /\ currentSchema[container] # REJECT

\* C5 as stated, for a stored value that is not falsy: when the stored
\* value fails direct validation and migrate succeeds with m, load writes m
\* under the store's key, and when that write resolves m is adopted,
\* notified and is what load resolves with; for any active version that is
\* a key of the history.
C5_MigrationPath ==
    [][ \A i \in 1..Len(ops) :
          LET raw == storage[processedKey] IN
          /\ (/\ ReadResolved(i)
              /\ ~Falsy(raw)
              /\ currentSchema[raw] = REJECT
              /\ migrate(hist, raw).right)
                => /\ ops'[i].phase = "writing"
                   /\ ops'[i].val = migrate(hist, raw).val
          /\ (ops[i].kind = "load" /\ WriteResolved(i))
                => Adopts(ops[i].val) /\ initialized'
      ]_vars

\* C6 as stated: when the stored value fails direct validation and migrate
\* fails, load writes the default under the store's key, and when that
\* write resolves the default is adopted and is what load resolves with.
C6_Fallback ==
    [][ \A i \in 1..Len(ops) :
          LET raw == storage[processedKey] IN
          /\ (/\ ReadResolved(i)
              /\ raw # NULL
              /\ currentSchema[raw] = REJECT
              /\ ~migrate(hist, raw).right)
                => /\ ops'[i].phase = "writing"
                   /\ ops'[i].val = def
          /\ (ops[i].kind = "load" /\ WriteResolved(i) /\ ops[i].val = def)
                => Adopts(def) /\ initialized' /\ ops'[i].val = def
      ]_vars

\* C7 as stated, for a default the active schema accepts: when there is no
\* entry under the store's key, load writes the default under the store's
\* key and adopts nothing before that write resolves, whatever the
\* validator is.
C7_EmptyStorage ==
    [][ \A i \in 1..Len(ops) :
          (ReadResolved(i) /\ storage[processedKey] = NULL
                /\ currentSchema[def] # REJECT)
             => /\ ops'[i].phase = "writing"
                /\ ops'[i].val = def
                /\ UNCHANGED <<value, container, notified>>
      ]_vars

\* C8: a load() made while initialized is true issues no storage
\* operation, notifies nobody, changes no field of the store state and
\* resolves with the current in-memory value.
C8_LoadIdempotent ==
    [][ (Called("load") /\ initialized)
          => /\ Last(ops').phase = "returned"
             /\ Last(ops').val = value
             /\ OldOpsSame
             /\ UNCHANGED <<storage, value, initialized, setPromise, container, notified>>
      ]_vars

C8_Witness ==
    \E i \in 1..Len(ops) :
        /\ ops[i].kind = "load" /\ ops[i].phase = "returned"
        /\ ops[i].val = value
        /\ initialized

\* C9: update(f) computes f of the in-memory value held when it is called;
\* an accepted result is written and adopted only when the write resolves,
\* a rejected one changes no field of the store state and no storage entry,
\* issues no write and notifies nobody.
C9_Update ==
    [][ /\ Called("update")
          => LET v == Updater(Last(ops').arg)[value] IN
             /\ Last(ops').val = v
             /\ OldOpsSame
             /\ UNCHANGED <<value, initialized, storage, container, notified>>
             /\ IF currentSchema[v] # REJECT
                THEN Last(ops').phase = "writing" /\ setPromise' = Len(ops')
                ELSE Last(ops').phase = "invalid" /\ UNCHANGED setPromise
        /\ \A i \in 1..Len(ops) :
             (ops[i].kind = "update" /\ WriteResolved(i)) => Adopts(ops[i].val)
      ]_vars

C9_Witness ==
    \E i, j \in 1..Len(ops) :
        /\ i < j
        /\ ops[i].phase = "writing"
        /\ ops[j].kind = "update" /\ ops[j].arg = "bump"
        /\ ops[j].phase = "writing"
        /\ ops[j].val # Updater("bump")[ops[i].val]

\* the versions of the history handed to migrate whose validator accepts raw
Accepting == {v \in DOMAIN mHist : mHist[v].schema[mRaw] # REJECT}

Greatest(S) == CHOOSE v \in S : \A w \in S : semverCompare(v, w) >= 0

\* C10: the source version of migrate is the greatest version whose
\* validator accepts raw; when its entry has no upgrade migrate fails with
\* "no migration available" for that version, whatever the other entries
\* are, and migrate succeeds only through the upgrade of the source version.
C10_SourceVersion ==
    (mOut # <<>> /\ Accepting # {}) =>
        LET source == Greatest(Accepting)
            latest == Greatest(DOMAIN mHist)
        IN IF mHist[source].hasMigration
           THEN LET candidate == mHist[source].migration[mRaw] IN
                IF mHist[latest].schema[candidate] # REJECT
                THEN mOut.right /\ mOut.val = mHist[latest].schema[candidate]
                ELSE ~mOut.right /\ mOut.err = ZodError
           ELSE ~mOut.right /\ mOut.err = NoMigration /\ mOut.src = source

C10_Witness ==
    /\ mOut # <<>>
    /\ \E lo, hi \in Accepting :
         /\ hi = Greatest(Accepting)
         /\ hi = Greatest(DOMAIN mHist)
         /\ lo # hi
         /\ ~mHist[hi].hasMigration
         /\ mHist[lo].hasMigration
         /\ ~mOut.right /\ mOut.err = NoMigration

\* the candidate migrate obtains from the upgrade of the source version
Candidate == mHist[Greatest(Accepting)].migration[mRaw]

LatestSchema == mHist[Greatest(DOMAIN mHist)].schema

\* C11 as stated: every successful result of migrate is the upgrade of the
\* source version applied to raw, and the validator of the greatest
\* version of the history accepts it.
C11_Original ==
    (mOut # <<>> /\ mOut.right) =>
        /\ Accepting # {}
        /\ mHist[Greatest(Accepting)].hasMigration
        /\ mOut.val = Candidate
        /\ LatestSchema[mOut.val] # REJECT

\* C11 amended: every successful result of migrate is what the validator
\* of the greatest version of the whole history returns for the upgrade of
\* the source version applied to raw (the parsed data, which differs from
\* the candidate when the validator fills in defaults), and that validator
\* accepts it; when the validator rejects the candidate, migrate returns a
\* validation failure and no value.
C11_Monotonic ==
    (mOut # <<>>) =>
        /\ mOut.right =>
             /\ Accepting # {}
             /\ mHist[Greatest(Accepting)].hasMigration
             /\ LatestSchema[Candidate] # REJECT
             /\ mOut.val = LatestSchema[Candidate]
             /\ LatestSchema[mOut.val] # REJECT
        /\ (/\ Accepting # {}
            /\ mHist[Greatest(Accepting)].hasMigration
            /\ LatestSchema[Candidate] = REJECT)
              => ~mOut.right /\ mOut.err = ZodError /\ mOut.val = REJECT

\* a success from the oldest of three versions, whose neighbour rejects the
\* candidate that the latest accepts
C11_Witness ==
    /\ mOut # <<>> /\ mOut.right
    /\ DOMAIN mHist = {V1, V2, V3}
    /\ Greatest(Accepting) = V1
    /\ mHist[V2].schema[Candidate] = REJECT
    /\ mOut.val = LatestSchema[Candidate]

\* C12: migrate fails with "no matching schema" exactly when no validator
\* of the history accepts raw, and then no upgrade function is called.
C12_NoMatch ==
    (mOut # <<>>) =>
        /\ (~mOut.right /\ mOut.err = NoMatchingSchema) <=> (Accepting = {})
        /\ (Accepting = {}) => mOut.called = {}

C12_Witness ==
    /\ mOut # <<>>
    /\ Accepting = {}
    /\ mOut.err = NoMatchingSchema
    /\ \E v \in DOMAIN mHist : mHist[v].hasMigration

\* the key the claims speak of: prefix, active version, user key
OwnKey == <<Prefix, cur, UserKey>>

\* C13: every write of the store goes to the key made of the prefix, the
\* active version and the user key, every load is decided by the entry
\* under that key alone, that key is what the key accessor returns, and no
\* entry under another key (the same user key under another version
\* included) is ever modified.
C13_OwnKeyOnly ==
    [][ /\ keyAccessor = OwnKey
        /\ \A k \in DOMAIN storage : k # OwnKey => storage'[k] = storage[k]
        /\ \A i \in 1..Len(ops) :
             /\ WriteResolved(i) => storage'[OwnKey] = ops[i].val
             /\ ReadResolved(i) => ops'[i].val = loadResult(storage[OwnKey])
      ]_vars

\* a store whose active version is not the only version with an entry has
\* written under its own key and left the other entry alone
C13_Witness ==
    /\ cur = V1
    /\ \E i \in 1..Len(ops) :
         /\ ops[i].kind = "set" /\ ops[i].phase = "done"
         /\ storage[OwnKey] = ops[i].arg
    /\ \E i \in 1..Len(ops) : ops[i].kind = "load" /\ ops[i].phase = "done"
    /\ storage[<<Prefix, V2, UserKey>>] = "n1"
    /\ storage[<<Prefix, V2, UserKey>>] # storage[OwnKey]

\* C17: when the write of a set resolves after the write of another set
\* has resolved, its value becomes the in-memory value, whichever of the
\* two calls was made first.
C17_LastResolvedWins ==
    [][ \A i, j \in 1..Len(ops) :
          (/\ i # j
           /\ ops[i].kind = "set" /\ ops[i].phase = "done"
           /\ ops[j].kind = "set" /\ WriteResolved(j))
             => /\ value' = ops[j].arg
                /\ container' = ops[j].arg
                /\ notified' = Append(notified, ops[j].arg)
      ]_vars

\* two overlapping sets of different values, both resolved, the one called
\* first resolved last: its value is the final one
C17_Witness ==
    \E i, j \in 1..Len(ops) :
        /\ i < j
        /\ ops[i].kind = "set" /\ ops[i].phase = "done"
        /\ ops[j].kind = "set" /\ ops[j].phase = "done"
        /\ ops[i].arg # ops[j].arg
        /\ Len(notified) >= 2
        /\ notified[Len(notified) - 1] = ops[j].arg
        /\ notified[Len(notified)] = ops[i].arg
        /\ value = ops[i].arg
        /\ Settled

LoadReads == {i \in 1..Len(ops) : ops[i].kind = "load" /\ ops[i].phase # "returned"}

LoadWrites ==
    {i \in 1..Len(ops) : ops[i].kind = "load" /\ ops[i].phase \in {"writing", "failed"}}

\* C18 as stated: whatever load calls are made, also while the load of the
\* construction is pending, storage is read for loading once and at most
\* one write originates from load.
C18_SingleLoad ==
    /\ Cardinality(LoadReads) <= 1
    /\ Cardinality(LoadWrites) <= 1

\* C19 as stated, for an entry that the active schema does not normalise:
\* once a load() has resolved with x, initialized is true and, when no set
\* or update was made, the value accessor equals x and the entry under the
\* store's key is x.
C19_LoadSettled ==
    \A i \in 1..Len(ops) :
        (/\ ops[i].kind = "load" /\ ops[i].phase = "done"
         /\ currentSchema[storage[OwnKey]] \in {REJECT, storage[OwnKey]})
            => /\ initialized
               /\ SetCalls = {}
                    => value = ops[i].val /\ storage[OwnKey] = ops[i].val

\* C20 as stated, for a default the active schema accepts: whenever an
\* entry is found under the store's key and fails direct validation, also
\* a falsy one, load goes through migrate: it resolves with the migrated
\* value, or with the default when migrate fails.
C20_FalsyMigrates ==
    [][ \A i \in 1..Len(ops) :
          LET raw == storage[OwnKey] IN
          (/\ ReadResolved(i) /\ raw # NULL /\ currentSchema[raw] = REJECT
           /\ currentSchema[def] # REJECT)
             => ops'[i].val = IF migrate(hist, raw).right
                              THEN migrate(hist, raw).val
                              ELSE def
      ]_vars

----------------------------------------------------------------------------
(* Version ordering *)

Compared == vOut # <<>> /\ "compare" \in vOut.done
Sorted == vOut # <<>> /\ "sort" \in vOut.done
LatestTaken == vOut # <<>> /\ "latest" \in vOut.done

ValidAt == {i \in DOMAIN vIn : Len(vIn[i]) \in {3, 4}}

\* major, minor, patch of a valid version string
Core(v) == <<v[1], v[2], v[3]>>

CoreLe(a, b) ==
    \/ a[1] < b[1]
    \/ a[1] = b[1] /\ a[2] < b[2]
    \/ a[1] = b[1] /\ a[2] = b[2] /\ a[3] <= b[3]

Occurrences(s, x) == Cardinality({i \in DOMAIN s : s[i] = x})

\* reflexivity, sign symmetry and transitivity of semverCompare on the
\* valid elements of the array, and A.sort(semverOrd) returning the array
\* rearranged in ascending major, minor, patch precedence
OrderLaws ==
    /\ Compared =>
         \A i, j, k \in ValidAt :
            /\ vOut.cmp[i][i] = 0
            /\ vOut.cmp[i][j] \in {-1, 0, 1}
            /\ vOut.cmp[i][j] = 0 - vOut.cmp[j][i]
            /\ (vOut.cmp[i][j] <= 0 /\ vOut.cmp[j][k] <= 0) => vOut.cmp[i][k] <= 0
    /\ Sorted =>
         /\ Len(vOut.sorted) = Len(vIn)
         /\ \A x \in VersionStrings :
               Occurrences(vOut.sorted, x) = Occurrences(vIn, x)
         /\ \A i, j \in DOMAIN vOut.sorted :
               i < j => CoreLe(vOut.sorted[i], vOut.sorted[j])

\* C14 as stated: semverCompare is a total order on valid version strings
\* (compare(a,a) = 0, compare(a,b) = -compare(b,a), transitivity, sorting
\* ascending by major, minor, patch) and compare(a,b) = 0 only for a = b.
C14_Original ==
    /\ OrderLaws
    /\ Compared =>
         \A i, j \in ValidAt : vOut.cmp[i][j] = 0 => vIn[i] = vIn[j]

\* C14 amended: semverCompare is a total preorder on valid version strings
\* whose ties are the strings with the same major, minor and patch:
\* compare(a,b) = 0 exactly when a and b are equal up to build metadata;
\* sorting yields ascending major, minor, patch precedence.
C14_TotalPreorder ==
    /\ OrderLaws
    /\ Compared =>
         \A i, j \in ValidAt :
            vOut.cmp[i][j] = 0 <=> Core(vIn[i]) = Core(vIn[j])

C14_Witness ==
    /\ Compared /\ Sorted
    /\ vIn = <<V4, V1Build, V1>>
    /\ vOut.cmp[2][3] = 0
    /\ vOut.cmp[1][2] = 1
    /\ vOut.sorted = <<V1Build, V1, V4>>

\* C15: semverCompare throws whenever either operand, or both, is not a
\* valid version string, and returns -1, 0 or 1 only for two valid ones.
C15_InvalidThrows ==
    Compared =>
        \A i, j \in DOMAIN vIn :
            /\ (i \notin ValidAt \/ j \notin ValidAt) => vOut.cmp[i][j] = THROWS
            /\ vOut.cmp[i][j] \in {-1, 0, 1} => (i \in ValidAt /\ j \in ValidAt)

C15_Witness ==
    /\ Compared
    /\ Len(vIn) = 3
    /\ ValidAt = {1}
    /\ vIn[2] # vIn[3]
    /\ vOut.cmp[1][2] = THROWS /\ vOut.cmp[2][1] = THROWS
    /\ vOut.cmp[2][3] = THROWS
    /\ vOut.cmp[1][1] = 0

\* C16: getLatestSemver returns "0.0.0" for an empty array and, for a
\* non-empty array of valid versions (duplicates and any order allowed),
\* an element of the array that no element exceeds under semverCompare.
C16_Latest ==
    LatestTaken =>
        IF vIn = <<>> THEN vOut.latest = <<0, 0, 0>>
        ELSE /\ \E i \in DOMAIN vIn : vOut.latest = vIn[i]
             /\ \A i \in DOMAIN vIn : CoreLe(vIn[i], vOut.latest)

C16_Witness ==
    /\ LatestTaken
    /\ Len(vIn) = 3
    /\ vIn[2] = vIn[3]
    /\ vOut.latest = vIn[1]
    /\ ~CoreLe(vIn[1], vIn[2])

----------------------------------------------------------------------------
(* Lifecycle and consistency of the store *)

\* storage operations the store has issued and that have not settled
InFlight == {i \in 1..Len(ops) : ops[i].phase \in {"reading", "writing"}}

\* when every read and write the store issues is fulfilled after a finite
\* time, the store reaches initialized = true and keeps it
EventuallyReady == []<>(InFlight = {}) => <>[]initialized

\* C21 as stated, the part on a write that never resolves: as long as the
\* write issued by the construction-time load is unresolved, initialized
\* is false.
C21_HungWrite ==
    ops[1].phase = "writing" => ~initialized

\* C22 as stated, for an entry that the active schema does not normalise:
\* whenever initialized is true and no read or write of the store is
\* pending, the in-memory value equals the entry under the store's key.
C22_Quiescent ==
    (/\ initialized
     /\ InFlight = {}
     /\ currentSchema[storage[OwnKey]] \in {REJECT, storage[OwnKey]})
        => value = storage[OwnKey]

\* C23 as stated, for a default the active schema accepts: the value
\* accessor equals what the reactive container holds after every step,
\* and inside every notification of a subscriber it equals the value
\* being delivered.
C23_AccessorInCallback ==
    currentSchema[def] # REJECT =>
        /\ value = container
        /\ \A k \in DOMAIN notified : seen[k] = notified[k]

\* C24: every write the store issues carries a value that the schema of
\* the active version accepts, and the entry under the store's key only
\* ever changes to such a value, whatever the default and the upgrades.
C24_WritesValid ==
    [][ /\ \A i \in 1..Len(ops') :
             (/\ ops'[i].phase = "writing"
              /\ (i > Len(ops) \/ ops[i].phase # "writing"))
                => parseSchema(currentSchema, ops'[i].val).right
        /\ storage'[OwnKey] # storage[OwnKey]
             => parseSchema(currentSchema, storage'[OwnKey]).right
      ]_vars

C24_Witness ==
    /\ ~parseSchema(currentSchema, def).right
    /\ ops[1].phase = "done" /\ ops[1].val = def
    /\ storage[OwnKey] # def
    /\ \E i \in SetCalls : ops[i].phase = "invalid"
    /\ \E i \in SetCalls : ops[i].phase = "done" /\ storage[OwnKey] = ops[i].val

====
